---- MODULE Spec2Model ----
(***************************************************************************)
(* The two ETL pipelines of the repository as one state machine:           *)
(*   "bank"  src/ETL_BankData.py  (largest banks by market capitalisation) *)
(*   "gdp"   src/ETL_GDP.py       (countries by nominal GDP)               *)
(* A run is main(): fetch, extract, transform, write the CSV file, write   *)
(* the SQLite table, run the queries.  Texts are tuples of one-character   *)
(* strings so that strip, replace and float() are computed, not assumed.   *)
(* Magnitudes are fixed-point integers in hundredths.                      *)
(***************************************************************************)
EXTENDS Integers, Sequences, FiniteSets, TLC

VARIABLES
    variant,   \* which script runs: "bank" or "gdp"
    page,      \* the document behind the url: [ntbody, rows of the target tbody]
    rates,     \* rows of exchange_rate.csv: sequence of [Currency, Rate]
    pc,        \* position of main()
    qi,        \* number of queries already run in this run
    df,        \* the DataFrame held by main(): [cols, rows]
    extracted, \* the DataFrame as the extractor returned it
    csv,       \* the CSV file on disk: [exists, cols, rows]
    table,     \* the SQLite table on disk: [exists, cols, rows]
    opened,    \* sqlite3.connect calls made by this run
    open,      \* ids of the connections currently open
    loadConn,  \* id of the connection the store write used (0: none yet)
    queryConn, \* ids of the connections the queries used
    log,       \* entries this run appended to its log file
    trace,     \* the steps this run has executed, in order
    outcome,   \* "running", "ok", "caught" (main logged and returned), "raised"
    run,       \* number of the current run of the script
    loadedBefore \* the table as the latest successful store write of an
                 \* earlier run left it (absent: none yet)

vars == <<variant, page, rates, pc, qi, df, extracted, csv, table, opened, open,
          loadConn, queryConn, log, trace, outcome, run, loadedBefore>>

----------------------------------------------------------------------------
(* Bounds of the model *)

MaxRows == 2
MaxRuns == 2

(* Program constants *)

BankTableIndex == 0
GdpTableIndex == 2
Divisor == 1000
Places == 2

----------------------------------------------------------------------------
(* Texts *)

Whitespace == {" "}
Digits == {"0", "1", "2", "3", "4", "5", "6", "7", "8", "9"}
\* the one-character "no data" marker U+2014
EmDash == "EM DASH"

DigitVal(c) ==
    CASE c = "0" -> 0 [] c = "1" -> 1 [] c = "2" -> 2 [] c = "3" -> 3
      [] c = "4" -> 4 [] c = "5" -> 5 [] c = "6" -> 6 [] c = "7" -> 7
      [] c = "8" -> 8 [] c = "9" -> 9

RECURSIVE LStrip(_)
LStrip(t) ==
    IF t # <<>> /\ Head(t) \in Whitespace THEN LStrip(Tail(t)) ELSE t

RECURSIVE RStrip(_)
RStrip(t) ==
    IF t # <<>> /\ t[Len(t)] \in Whitespace
    THEN RStrip(SubSeq(t, 1, Len(t) - 1))
    ELSE t

\* str.strip()
Strip(t) == RStrip(LStrip(t))

\* str.replace(old, "") for a one-character old
Replace(t, old) == SelectSeq(t, LAMBDA c : c # old)

\* old in str, for a one-character old
Contains(t, c) == \E i \in DOMAIN t : t[i] = c

Lower(c) ==
    CASE c = "A" -> "a" [] c = "B" -> "b" [] c = "C" -> "c" [] c = "F" -> "f"
      [] c = "I" -> "i" [] c = "N" -> "n" [] c = "T" -> "t" [] c = "U" -> "u"
      [] c = "Y" -> "y" [] OTHER -> c

LowerText(t) == [i \in DOMAIN t |-> Lower(t[i])]

RECURSIVE DigitsVal(_)
DigitsVal(t) ==
    IF t = <<>> THEN 0
    ELSE 10 * DigitsVal(SubSeq(t, 1, Len(t) - 1)) + DigitVal(t[Len(t)])

RECURSIVE Pow10(_)
Pow10(n) == IF n = 0 THEN 1 ELSE 10 * Pow10(n - 1)

\* n / d rounded to the nearest integer, ties to the even one (numpy's round)
RoundHalfEven(n, d) ==
    LET q == n \div d
        r == n % d
    IN  IF 2 * r < d THEN q
        ELSE IF 2 * r > d THEN q + 1
        ELSE IF q % 2 = 0 THEN q ELSE q + 1

(* A float: [fin |-> TRUE, v |-> hundredths], or not finite: v = 0 is nan,  *)
(* v = 1 is inf, v = -1 is -inf.                                            *)
Fin(n) == [fin |-> TRUE, v |-> n]
NaN == [fin |-> FALSE, v |-> 0]
Inf(sign) == [fin |-> FALSE, v |-> sign]

ValueError == [ok |-> FALSE, val |-> NaN]
Parsed(x) == [ok |-> TRUE, val |-> x]

(* float(str): surrounding whitespace, an optional sign, then nan, inf or   *)
(* infinity in any case, or decimal digits with at most one point and at   *)
(* least one digit; the result is the nearest representable value (here:   *)
(* the nearest hundredth).  The sample texts carry no exponent and no      *)
(* digit-group underscore.                                                 *)
ParseFloat(t) ==
    LET s == Strip(t)
        signed == s # <<>> /\ Head(s) \in {"+", "-"}
        sign == IF signed /\ Head(s) = "-" THEN -1 ELSE 1
        body == IF signed THEN Tail(s) ELSE s
        low == LowerText(body)
        points == {i \in DOMAIN body : body[i] = "."}
        dot == IF points = {} THEN Len(body) + 1
               ELSE CHOOSE i \in points : TRUE
        ipart == SubSeq(body, 1, dot - 1)
        fpart == SubSeq(body, dot + 1, Len(body))
    IN  IF low = <<"n", "a", "n">> THEN Parsed(NaN)
        ELSE IF low \in {<<"i", "n", "f">>,
                         <<"i", "n", "f", "i", "n", "i", "t", "y">>}
        THEN Parsed(Inf(sign))
        ELSE IF \/ Cardinality(points) > 1
                \/ \E i \in DOMAIN body : body[i] \notin Digits \cup {"."}
                \/ ipart = <<>> /\ fpart = <<>>
        THEN ValueError
        ELSE IF Len(fpart) <= Places
        THEN Parsed(Fin(sign * (DigitsVal(ipart) * Pow10(Places)
                      + DigitsVal(fpart) * Pow10(Places - Len(fpart)))))
        ELSE Parsed(Fin(sign * RoundHalfEven(DigitsVal(ipart \o fpart),
                                             Pow10(Len(fpart) - Places))))

----------------------------------------------------------------------------
(* Arithmetic on magnitudes *)

\* (x / 1e3).round(2)
Rescale(x) == IF x.fin THEN Fin(RoundHalfEven(x.v, Divisor)) ELSE x

\* (x * rate).round(2), rate in hundredths and positive
Convert(x, rate) ==
    IF x.fin THEN Fin(RoundHalfEven(x.v * rate, Pow10(Places))) ELSE x

----------------------------------------------------------------------------
(* Documents: a row is the sequence of its td cells (a header row has      *)
(* none); a cell has its text and, when it holds an <a>, the children of   *)
(* the first one.                                                          *)

Td(text) == [text |-> text, link |-> FALSE, contents |-> <<>>]
TdA(text) == [text |-> text, link |-> TRUE, contents |-> <<text>>]

BankA == <<"B", "a", "n", "k", " ", "A">>
BankB == <<"B", "a", "n", "k", " ", "B">>
BankC == <<"B", "a", "n", "k", " ", "C">>
Fiji == <<"F", "i", "j", "i">>
Peru == <<"P", "e", "r", "u">>
Tonga == <<"T", "o", "n", "g", "a">>
World == <<"W", "o", "r", "l", "d">>

HeaderRow == <<>>

\* rank, bank name, market cap (USD billion on the page)
BankRows ==
    { HeaderRow,
      <<Td(<<"1">>), Td(<<" ">> \o BankA), Td(<<"1", ",", "0", "0", "0", ".", "0", "0", " ">>)>>,
      <<Td(<<"2">>), Td(BankB), Td(<<EmDash>>)>>,
      <<Td(<<"3">>), Td(BankC), Td(<<"5", "0", "0", ".", "5", "0">>)>>,
      <<Td(<<"4">>), Td(<<" ">>), Td(<<"-", "5">>)>>,
      <<Td(<<"5">>), Td(BankA), Td(<<"n", "a", "n">>)>>,
      <<Td(<<"6">>), Td(BankB)>> }

\* country, region, GDP (USD million)
GdpRows ==
    { HeaderRow,
      <<TdA(Peru), Td(<<>>), Td(<<"2", "6", ",", "8", "5", "4">>)>>,
      <<TdA(Fiji), Td(<<>>), Td(<<" ", "2", ",", "1", "2", "5">>)>>,
      <<TdA(Tonga), Td(<<>>), Td(<<EmDash>>)>>,
      <<Td(World), Td(<<>>), Td(<<"9", "0", "0">>)>>,
      <<TdA(Peru), Td(<<>>), Td(<<"n", "/", "a">>)>>,
      <<TdA(Fiji)>> }

\* the three-row table of the bank scenario, with the rank column in front
ScenarioTable ==
    << <<Td(<<"1">>), Td(BankA), Td(<<"1", ",", "0", "0", "0", ".", "0", "0">>)>>,
       <<Td(<<"2">>), Td(BankB), Td(<<EmDash>>)>>,
       <<Td(<<"3">>), Td(BankC), Td(<<"5", "0", "0", ".", "5", "0">>)>> >>

RowsUpTo(S, n) == UNION {[1..k -> S] : k \in 0..n}

\* exchange_rate.csv: the rows present, rates in hundredths
AllRates ==
    << [Currency |-> "GBP", Rate |-> 79],
       [Currency |-> "EUR", Rate |-> 93],
       [Currency |-> "INR", Rate |-> 8295] >>

RateFiles ==
    { SelectSeq(AllRates, LAMBDA r : r.Currency \in S) :
        S \in SUBSET {"GBP", "EUR", "INR"} }

\* soup.find_all("tbody")[k].find_all("tr") for the page [ntbody, rows]
TargetIndex(v) == IF v = "bank" THEN BankTableIndex ELSE GdpTableIndex

Pages(v) ==
    { [ntbody |-> TargetIndex(v) + 1, rows |-> r] :
        r \in RowsUpTo(IF v = "bank" THEN BankRows ELSE GdpRows, MaxRows)
              \cup (IF v = "bank" THEN {ScenarioTable} ELSE {}) }
    \cup { [ntbody |-> TargetIndex(v), rows |-> <<>>] }

----------------------------------------------------------------------------
(* DataFrames: [cols |-> column names in order, rows |-> records]          *)

NoFrame == [cols |-> <<>>, rows |-> <<>>]

Raise(e) == [exc |-> e, keep |-> FALSE, rec |-> <<>>]
Skip == [exc |-> "", keep |-> FALSE, rec |-> <<>>]
Keep(r) == [exc |-> "", keep |-> TRUE, rec |-> r]

\* ETL_BankData.py, body of the row loop
BankRecord(cols) ==
    IF Len(cols) = 0 THEN Skip
    ELSE IF Len(cols) < 3 THEN Raise("IndexError")
    ELSE LET bank_name == Strip(cols[2].text)
             market_cap_usd == ParseFloat(Replace(Strip(cols[3].text), ","))
         IN  IF ~market_cap_usd.ok THEN Raise("ValueError")
             ELSE Keep(("Bank Name" :> bank_name)
                       @@ ("Market Cap (USD)" :> market_cap_usd.val))

\* ETL_GDP.py, body of the row loop
GdpRecord(col) ==
    IF Len(col) = 0 THEN Skip
    ELSE IF ~col[1].link THEN Skip
    ELSE IF Len(col) < 3 THEN Raise("IndexError")
    ELSE IF Contains(Strip(col[3].text), EmDash) THEN Skip
    ELSE IF col[1].contents = <<>> THEN Raise("IndexError")
    ELSE Keep(("Country" :> col[1].contents[1])
              @@ ("GDP_USD_millions" :> Strip(col[3].text)))

\* the row loop over the outcomes of its body, row by row: the records it
\* appends, or the first exception raised
RECURSIVE RowLoop(_, _)
RowLoop(outcomes, acc) ==
    IF outcomes = <<>> THEN [exc |-> "", rows |-> acc]
    ELSE LET r == Head(outcomes)
         IN  IF r.exc # "" THEN [exc |-> r.exc, rows |-> <<>>]
             ELSE RowLoop(Tail(outcomes),
                          IF r.keep THEN Append(acc, r.rec) ELSE acc)

\* extract_data(url), after requests.get returned
extract_data(pg) ==
    IF pg.ntbody <= BankTableIndex THEN [exc |-> "IndexError", df |-> NoFrame]
    ELSE LET banks == RowLoop([i \in DOMAIN pg.rows |-> BankRecord(pg.rows[i])], <<>>)
         IN  IF banks.exc # "" THEN [exc |-> banks.exc, df |-> NoFrame]
             ELSE [exc |-> "",
                   df |-> [cols |-> IF banks.rows = <<>> THEN <<>>
                                    ELSE <<"Bank Name", "Market Cap (USD)">>,
                           rows |-> banks.rows]]

\* extract(url, table_attribs), after requests.get returned
extract(pg) ==
    IF pg.ntbody <= GdpTableIndex THEN [exc |-> "IndexError", df |-> NoFrame]
    ELSE LET got == RowLoop([i \in DOMAIN pg.rows |-> GdpRecord(pg.rows[i])], <<>>)
         IN  IF got.exc # "" THEN [exc |-> got.exc, df |-> NoFrame]
             ELSE [exc |-> "",
                   df |-> [cols |-> <<"Country", "GDP_USD_millions">>,
                           rows |-> got.rows]]

----------------------------------------------------------------------------
(* Column operations of a DataFrame *)

HasCol(d, c) == \E i \in DOMAIN d.cols : d.cols[i] = c

\* d[c] = series: a new column goes last, an existing one keeps its place
SetCol(d, c, series) ==
    [cols |-> IF HasCol(d, c) THEN d.cols ELSE Append(d.cols, c),
     rows |-> [i \in DOMAIN d.rows |-> (c :> series[i]) @@ d.rows[i]]]

\* d[c] with f applied to every value is written at the call sites as
\* [i \in DOMAIN d.rows |-> f(d.rows[i][c])]

\* d.rename(columns={old: new})
RenameCol(d, old, new) ==
    [cols |-> [i \in DOMAIN d.cols |-> IF d.cols[i] = old THEN new ELSE d.cols[i]],
     rows |-> [i \in DOMAIN d.rows |->
                 [c \in (DOMAIN d.rows[i] \ {old}) \cup {new} |->
                     IF c = new THEN d.rows[i][old] ELSE d.rows[i][c]]]]

\* d.drop(columns=[c])
DropCol(d, c) ==
    [cols |-> SelectSeq(d.cols, LAMBDA x : x # c),
     rows |-> [i \in DOMAIN d.rows |->
                 [x \in DOMAIN d.rows[i] \ {c} |-> d.rows[i][x]]]]

----------------------------------------------------------------------------
(* Log entries: <<level, message, detail>>, the detail being the exception *)
(* or the value the message interpolates; log_progress of ETL_GDP.py       *)
(* writes no level.                                                        *)

Info(msg) == <<"INFO", msg, "">>
Warning(msg, what) == <<"WARNING", msg, what>>
Error(msg, e) == <<"ERROR", msg, e>>
Critical(e) == <<"CRITICAL", "ETL process failed", e>>
Progress(msg) == <<"", msg, "">>
ProgressError(msg, e) == <<"", msg, e>>

----------------------------------------------------------------------------
(* Transformers *)

Currencies == <<"GBP", "EUR", "INR">>

\* f"Market Cap ({currency})"
MarketCap(currency) ==
    CASE currency = "GBP" -> "Market Cap (GBP)"
      [] currency = "EUR" -> "Market Cap (EUR)"
      [] currency = "INR" -> "Market Cap (INR)"

\* conversion_rates.loc[conversion_rates["Currency"] == currency, "Rate"]
RateRow(conversion_rates, currency) ==
    SelectSeq(conversion_rates, LAMBDA r : r.Currency = currency)

\* the loop over currencies of transform_data
RECURSIVE CurrencyLoop(_, _, _, _)
CurrencyLoop(d, conversion_rates, cs, warned) ==
    IF cs = <<>> THEN [exc |-> "", df |-> d, log |-> warned]
    ELSE LET currency == Head(cs)
             rate_row == RateRow(conversion_rates, currency)
         IN  IF rate_row # <<>>
             THEN IF ~HasCol(d, "Market Cap (USD)")
                  THEN [exc |-> "KeyError", df |-> d, log |-> warned]
                  ELSE CurrencyLoop(
                         SetCol(d, MarketCap(currency),
                                [i \in DOMAIN d.rows |->
                                   Convert(d.rows[i]["Market Cap (USD)"],
                                           rate_row[1].Rate)]),
                         conversion_rates, Tail(cs), warned)
             ELSE CurrencyLoop(d, conversion_rates, Tail(cs),
                    Append(warned, Warning("No conversion rate found", currency)))

\* transform_data with the division done before the currency columns
transform_data_rescaled_first(d, conversion_rates) ==
    IF ~HasCol(d, "Market Cap (USD)")
    THEN [exc |-> "KeyError", df |-> d, log |-> <<>>]
    ELSE LET looped == CurrencyLoop(
                         SetCol(d, "Market Cap (USD)",
                                [i \in DOMAIN d.rows |->
                                   Rescale(d.rows[i]["Market Cap (USD)"])]),
                         conversion_rates, Currencies, <<>>)
         IN  [exc |-> looped.exc,
              df |-> RenameCol(looped.df, "Market Cap (USD)", "MC_USD_Billion"),
              log |-> looped.log]

\* transform_data(df, conversion_file), after pd.read_csv returned
transform_data(d, conversion_rates) ==
    LET looped == CurrencyLoop(d, conversion_rates, Currencies, <<>>)
    IN  IF looped.exc # "" THEN looped
        ELSE IF ~HasCol(looped.df, "Market Cap (USD)")
        THEN [exc |-> "KeyError", df |-> looped.df, log |-> looped.log]
        ELSE [exc |-> "",
              df |-> RenameCol(SetCol(looped.df, "Market Cap (USD)",
                                      [i \in DOMAIN looped.df.rows |->
                                         Rescale(looped.df.rows[i]["Market Cap (USD)"])]),
                               "Market Cap (USD)", "MC_USD_Billion"),
              log |-> looped.log]

\* transform(df)
transform(d) ==
    LET AsFloat(r) == ParseFloat(Replace(r["GDP_USD_millions"], ","))
    IN  IF \E i \in DOMAIN d.rows : ~AsFloat(d.rows[i]).ok
        THEN [exc |-> "ValueError", df |-> d, log |-> <<>>]
        ELSE [exc |-> "",
              df |-> DropCol(SetCol(d, "GDP_USD_billions",
                                    [i \in DOMAIN d.rows |->
                                       Rescale(AsFloat(d.rows[i]).val)]),
                             "GDP_USD_millions"),
              log |-> <<>>]

----------------------------------------------------------------------------
(* Persistence and queries *)

Absent == [exists |-> FALSE, cols |-> <<>>, rows |-> <<>>]
Stored(d) == [exists |-> TRUE, cols |-> d.cols, rows |-> d.rows]

\* df.to_csv(file_path, index=False): the file is overwritten
load_to_csv(d, file) == Stored(d)

\* to_sql with if_exists="append"
load_to_db_append(d, tbl) ==
    [exists |-> TRUE, cols |-> d.cols, rows |-> tbl.rows \o d.rows]

\* df.to_sql(table_name, conn, if_exists="replace", index=False)
load_to_db(d, tbl) == Stored(d)

\* what a failed to_sql can leave behind: the old table, no table (dropped),
\* or the new table without its rows
FailedLoad(d, tbl) == {tbl, Absent, [exists |-> TRUE, cols |-> d.cols, rows |-> <<>>]}

\* the columns a query names; the statements of main()
Queries(v) ==
    IF v = "bank"
    THEN << {}, {"Market Cap (GBP)"}, {"Bank Name"} >>
    ELSE << {"GDP_USD_billions"} >>

\* pd.read_sql_query(query_statement, connection): the engine's answer
run_queries(needs, tbl) ==
    IF ~tbl.exists \/ \E c \in needs : ~HasCol(tbl, c)
    THEN "OperationalError" ELSE ""

\* errors that come from the environment, not from the data
EnvErrors == {"ConnectionError", "OSError", "FileNotFoundError", "DatabaseError"}

----------------------------------------------------------------------------
(* main(): the order of its statements, and what ends a run                *)

Step(name) == [step |-> name, n |-> 0]
QueryStep(i) == [step |-> "query", n |-> i]

\* main() with the store write moved in front of the file write
MainOrderStoreFirst(v) ==
    IF v = "bank"
    THEN <<"fetch", "extract", "transform", "load_to_db", "load_to_csv",
           "connect", "query", "close">>
    ELSE <<"fetch", "extract", "transform", "connect", "load_to_db",
           "load_to_csv", "query", "close">>

\* the statements of main() in order; load_to_db of ETL_BankData.py opens
\* and closes a connection of its own, and main() connects after it
MainOrder(v) ==
    IF v = "bank"
    THEN <<"fetch", "extract", "transform", "load_to_csv", "load_to_db",
           "connect", "query", "close">>
    ELSE <<"fetch", "extract", "transform", "load_to_csv", "connect",
           "load_to_db", "query", "close">>

After(v, p) ==
    LET order == MainOrder(v)
        i == CHOOSE k \in DOMAIN order : order[k] = p
    IN  IF i = Len(order) THEN "done" ELSE order[i + 1]

\* an exception leaves the stage that logged it: main() of ETL_BankData.py
\* catches it, logs it and returns; main() of ETL_GDP.py has no handler
Handler(v, e) ==
    IF v = "bank"
    THEN [outcome |-> "caught", log |-> <<Critical(e)>>]
    ELSE [outcome |-> "raised", log |-> <<>>]

Abort(entries, e) ==
    /\ log' = log \o entries \o Handler(variant, e).log
    /\ outcome' = Handler(variant, e).outcome
    /\ pc' = "done"

Goes(entries) ==
    /\ log' = log \o entries
    /\ outcome' = outcome
    /\ pc' = After(variant, pc)

StageError(bankMsg, gdpMsg, e) ==
    IF variant = "bank" THEN Error(bankMsg, e) ELSE ProgressError(gdpMsg, e)

----------------------------------------------------------------------------
(* Initial states: a script, the page behind its url, the rate file and    *)
(* what an earlier run left in the table                                   *)

StaleTable(v) ==
    IF v = "bank"
    THEN [exists |-> TRUE, cols |-> <<"Bank Name", "MC_USD_Billion">>,
          rows |-> << ("Bank Name" :> BankC) @@ ("MC_USD_Billion" :> Fin(7)) >>]
    ELSE [exists |-> TRUE, cols |-> <<"Country", "GDP_USD_billions">>,
          rows |-> << ("Country" :> World) @@ ("GDP_USD_billions" :> Fin(7)) >>]

PriorTables(v) ==
    {Absent, [StaleTable(v) EXCEPT !.rows = <<>>], StaleTable(v)}

Init ==
    /\ variant \in {"bank", "gdp"}
    /\ page \in Pages(variant)
    /\ rates \in IF variant = "bank" THEN RateFiles ELSE {<<>>}
    /\ table \in PriorTables(variant)
    /\ csv = Absent
    /\ pc = "fetch"
    /\ qi = 0
    /\ df = NoFrame
    /\ extracted = NoFrame
    /\ opened = 0
    /\ open = {}
    /\ loadConn = 0
    /\ queryConn = {}
    /\ log = <<>>
    /\ trace = <<>>
    /\ outcome = "running"
    /\ run = 1
    /\ loadedBefore = Absent

----------------------------------------------------------------------------
(* The steps of main()                                                     *)

\* main() starts and the extractor calls requests.get(url)
Fetch ==
    /\ pc = "fetch"
    /\ trace' = Append(trace, Step("fetch"))
    /\ \E ok \in BOOLEAN :
         LET started == IF variant = "bank"
                        THEN <<Info("ETL process initiated."),
                               Info("Starting data extraction.")>>
                        ELSE <<Progress("Preliminaries complete. Initiating ETL process")>>
         IN  IF ok THEN Goes(started)
             ELSE Abort(Append(started,
                          StageError("Error during extraction",
                                     "Error in data extraction", "ConnectionError")),
                        "ConnectionError")
    /\ UNCHANGED <<variant, page, rates, qi, df, extracted, csv, table, opened,
                   open, loadConn, queryConn, run, loadedBefore>>

\* the rest of extract_data / extract: parse, select the tbody, loop over rows
Extract ==
    /\ pc = "extract"
    /\ trace' = Append(trace, Step("extract"))
    /\ LET got == IF variant = "bank" THEN extract_data(page) ELSE extract(page)
       IN  IF got.exc = ""
           THEN /\ df' = got.df
                /\ extracted' = got.df
                /\ Goes(IF variant = "bank"
                        THEN <<Info("Extracted rows successfully.")>>
                        ELSE <<Progress("Data extraction complete. Initiating Transformation process")>>)
           ELSE /\ UNCHANGED <<df, extracted>>
                /\ Abort(<<StageError("Error during extraction",
                                      "Error in data extraction", got.exc)>>, got.exc)
    /\ UNCHANGED <<variant, page, rates, qi, csv, table, opened, open, loadConn,
                   queryConn, run, loadedBefore>>

\* transform_data(df, conversion_file) / transform(df)
Transform ==
    /\ pc = "transform"
    /\ trace' = Append(trace, Step("transform"))
    /\ \E readable \in (IF variant = "bank" THEN BOOLEAN ELSE {TRUE}) :
         LET started == IF variant = "bank"
                        THEN <<Info("Starting data transformation.")>> ELSE <<>>
             got == IF variant = "bank" THEN transform_data(df, rates)
                    ELSE transform(df)
         IN  IF ~readable
             THEN /\ UNCHANGED df
                  /\ Abort(Append(started, Error("Error during transformation",
                                                 "FileNotFoundError")),
                           "FileNotFoundError")
             ELSE IF got.exc # ""
             THEN \* the frame is changed in place up to the failing statement
                  /\ df' = got.df
                  /\ Abort(started \o got.log
                           \o <<StageError("Error during transformation",
                                           "Error in transformation", got.exc)>>,
                           got.exc)
             ELSE /\ df' = got.df
                  /\ Goes(started \o got.log
                          \o (IF variant = "bank"
                              THEN <<Info("Data transformation completed successfully.")>>
                              ELSE <<Progress("Data transformation complete. Initiating loading process")>>))
    /\ UNCHANGED <<variant, page, rates, qi, extracted, csv, table, opened, open,
                   loadConn, queryConn, run, loadedBefore>>

\* what a failed to_csv can leave behind: the old file or a truncated one
FailedWrite(file) == {file, [exists |-> TRUE, cols |-> <<>>, rows |-> <<>>]}

\* load_to_csv(df, path)
LoadToCsv ==
    /\ pc = "load_to_csv"
    /\ trace' = Append(trace, Step("load_to_csv"))
    /\ \E ok \in BOOLEAN :
         LET started == IF variant = "bank"
                        THEN <<Info("Starting CSV loading.")>> ELSE <<>>
         IN  IF ok
             THEN /\ csv' = load_to_csv(df, csv)
                  /\ Goes(Append(started,
                            IF variant = "bank" THEN Info("Data saved to CSV file")
                            ELSE Progress("Data saved to CSV file")))
             ELSE /\ csv' \in FailedWrite(csv)
                  /\ Abort(Append(started,
                             StageError("Error during CSV loading",
                                        "Error in saving to CSV", "OSError")),
                           "OSError")
    /\ UNCHANGED <<variant, page, rates, qi, df, extracted, table, opened, open,
                   loadConn, queryConn, run, loadedBefore>>

\* sqlite3.connect(...) in main()
Connect ==
    /\ pc = "connect"
    /\ trace' = Append(trace, Step("connect"))
    /\ \E ok \in BOOLEAN :
         IF ok
         THEN /\ opened' = opened + 1
              /\ open' = open \cup {opened + 1}
              /\ Goes(IF variant = "bank"
                      THEN <<Info("SQL Connection established for running queries.")>>
                      ELSE <<Progress("SQL Connection initiated.")>>)
         ELSE /\ UNCHANGED <<opened, open>>
              /\ Abort(<<>>, "DatabaseError")
    /\ UNCHANGED <<variant, page, rates, qi, df, extracted, csv, table, loadConn,
                   queryConn, run, loadedBefore>>

\* load_to_db(df, database_file, table_name) of ETL_BankData.py: it connects,
\* writes and closes; a failing write skips the close
BankLoadToDb ==
    /\ pc = "load_to_db"
    /\ variant = "bank"
    /\ trace' = Append(trace, Step("load_to_db"))
    /\ \E how \in {"ok", "connect fails", "to_sql fails"} :
         LET started == <<Info("Starting database loading.")>>
             failed == Append(started, Error("Error during database loading",
                                             "DatabaseError"))
             conn == opened + 1
         IN  CASE how = "ok" ->
                    /\ opened' = conn
                    /\ loadConn' = conn
                    /\ open' = open
                    /\ table' = load_to_db(df, table)
                    /\ Goes(Append(started, Info("Data loaded to database table")))
               [] how = "connect fails" ->
                    /\ UNCHANGED <<opened, loadConn, open, table>>
                    /\ Abort(failed, "DatabaseError")
               [] how = "to_sql fails" ->
                    /\ opened' = conn
                    /\ loadConn' = conn
                    /\ open' = open \cup {conn}
                    /\ table' \in FailedLoad(df, table)
                    /\ Abort(failed, "DatabaseError")
    /\ UNCHANGED <<variant, page, rates, qi, df, extracted, csv, queryConn, run, loadedBefore>>

\* load_to_db(df, sql_connection, table_name) of ETL_GDP.py: on main()'s
\* connection
GdpLoadToDb ==
    /\ pc = "load_to_db"
    /\ variant = "gdp"
    /\ trace' = Append(trace, Step("load_to_db"))
    /\ loadConn' = CHOOSE c \in open : TRUE
    /\ \E ok \in BOOLEAN :
         IF ok
         THEN /\ table' = load_to_db(df, table)
              /\ Goes(<<Progress("Data loaded to Database as table")>>)
         ELSE /\ table' \in FailedLoad(df, table)
              /\ Abort(<<ProgressError("Error in saving to Database", "DatabaseError")>>,
                       "DatabaseError")
    /\ UNCHANGED <<variant, page, rates, qi, df, extracted, csv, opened, open,
                   queryConn, run, loadedBefore>>

\* run_queries(statement, conn) / run_query(statement, sql_connection), for
\* the next statement of main()
RunQuery ==
    /\ pc = "query"
    /\ trace' = Append(trace, QueryStep(qi + 1))
    /\ queryConn' = queryConn \cup {CHOOSE c \in open : TRUE}
    /\ \E fault \in BOOLEAN :
         LET started == IF variant = "bank" THEN <<Info("Running query")>> ELSE <<>>
             e == IF fault THEN "DatabaseError"
                  ELSE run_queries(Queries(variant)[qi + 1], table)
         IN  IF e = ""
             THEN /\ qi' = qi + 1
                  /\ log' = log \o started
                            \o (IF variant = "bank"
                                THEN <<Info("Query executed successfully.")>> ELSE <<>>)
                  /\ outcome' = outcome
                  /\ pc' = IF qi + 1 < Len(Queries(variant)) THEN "query"
                           ELSE After(variant, "query")
             ELSE /\ qi' = qi
                  /\ Abort(Append(started,
                             StageError("Error executing query",
                                        "Error in running query", e)), e)
    /\ UNCHANGED <<variant, page, rates, df, extracted, csv, table, opened, open,
                   loadConn, run, loadedBefore>>

\* the end of main(): the closing log line and conn.close()
Close ==
    /\ pc = "close"
    /\ trace' = Append(trace, Step("close"))
    /\ open' = {}
    /\ log' = Append(log, IF variant = "bank"
                          THEN Info("ETL process and queries completed successfully.")
                          ELSE Progress("Process Complete."))
    /\ outcome' = "ok"
    /\ pc' = "done"
    /\ UNCHANGED <<variant, page, rates, qi, df, extracted, csv, table, opened,
                   loadConn, queryConn, run, loadedBefore>>

Range(seq) == {seq[i] : i \in DOMAIN seq}

\* the step ran in this run / was the one that raised / ran and returned
Ran(name) == Step(name) \in Range(trace)
FailedAt(name) ==
    /\ outcome \in {"caught", "raised"}
    /\ trace # <<>>
    /\ trace[Len(trace)] = Step(name)
Succeeded(name) == Ran(name) /\ ~FailedAt(name)

StoreWritten == Succeeded("load_to_db")

\* the script is run again on the same page and rate file: a new process,
\* with the files of the earlier run on disk
Rerun ==
    /\ pc = "done"
    /\ run < MaxRuns
    /\ run' = run + 1
    /\ pc' = "fetch"
    /\ qi' = 0
    /\ df' = NoFrame
    /\ extracted' = NoFrame
    /\ opened' = 0
    /\ open' = {}
    /\ loadConn' = 0
    /\ queryConn' = {}
    /\ log' = <<>>
    /\ trace' = <<>>
    /\ outcome' = "running"
    /\ loadedBefore' = IF StoreWritten THEN table ELSE loadedBefore
    /\ UNCHANGED <<variant, page, rates, csv, table>>

Next ==
    \/ Fetch
    \/ Extract
    \/ Transform
    \/ LoadToCsv
    \/ Connect
    \/ BankLoadToDb
    \/ GdpLoadToDb
    \/ RunQuery
    \/ Close
    \/ Rerun

Spec == Init /\ [][Next]_vars

----------------------------------------------------------------------------
(* Vocabulary of the claims                                                *)

TablePresent == page.ntbody > TargetIndex(variant)

IdCol(v) == IF v = "bank" THEN "Bank Name" ELSE "Country"

Column(d, c) == [i \in DOMAIN d.rows |-> d.rows[i][c]]

\* the identifying and the numeric cell of a row of three cells
RowName(v, row) == IF v = "bank" THEN Strip(row[2].text) ELSE row[1].contents[1]
RowNumber(row) == ParseFloat(Replace(Strip(row[3].text), ","))

IsSentinelRow(row) == Len(row) >= 3 /\ Contains(row[3].text, EmDash)

\* a row the extractor is meant to turn into a Record
Qualifies(v, row) ==
    /\ Len(row) >= 3
    /\ RowNumber(row).ok
    /\ v = "gdp" => row[1].link /\ row[1].contents # <<>>

QualifyingNames(v, rows) ==
    LET q == SelectSeq(rows, LAMBDA row : Qualifies(v, row))
    IN  [i \in DOMAIN q |-> RowName(v, q[i])]

NoEnvError == \A i \in DOMAIN log : log[i][3] \notin EnvErrors

Abs(n) == IF n < 0 THEN -n ELSE n

\* r is n / d rounded once to the nearest integer, a tie going to the even one
IsRounded(n, d, r) ==
    /\ 2 * Abs(n - r * d) <= d
    /\ 2 * Abs(n - r * d) = d => r % 2 = 0

\* y is x * num / den rounded to two places (a non-finite x stays as it is)
IsRound2(x, num, den, y) ==
    IF x.fin THEN y.fin /\ IsRounded(x.v * num, den, y.v) ELSE y = x

TransformDone == Succeeded("transform")

----------------------------------------------------------------------------
(* C1: per-row malformations never abort extraction: on a page that has    *)
(* the target table the extractor returns the Dataset of the well-formed   *)
(* rows, a malformed row being merely left out.                            *)
(* The extractors raise instead: this is the claim, which the code breaks. *)
C1_MalformedRowNeverAborts ==
    (Ran("extract") /\ TablePresent) =>
        /\ ~FailedAt("extract")
        /\ Column(extracted, IdCol(variant)) = QualifyingNames(variant, page.rows)

(* C2: sentinel exclusion is total: no Record of the Dataset, as extracted, *)
(* transformed, or written to the file and the table, comes from a row     *)
(* whose numeric cell holds the em-dash, and every other qualifying row of *)
(* the same table is present.                                              *)
C2_SentinelExclusionTotal ==
    (Ran("extract") /\ TablePresent
       /\ \E i \in DOMAIN page.rows : IsSentinelRow(page.rows[i])) =>
        LET expected == QualifyingNames(variant, page.rows)
        IN  /\ ~FailedAt("extract")
            /\ Column(extracted, IdCol(variant)) = expected
            /\ TransformDone => Column(df, IdCol(variant)) = expected
            /\ Succeeded("load_to_csv") => Column(csv, IdCol(variant)) = expected
            /\ Succeeded("load_to_db") => Column(table, IdCol(variant)) = expected

(* C3: the bank scenario: the three-row table (Bank A 1,000.00; Bank B     *)
(* em-dash; Bank C 500.50) with GBP = 0.79 is extracted and transformed    *)
(* without an abort into exactly Bank A (1.00, 790.00) and Bank C (0.50,   *)
(* 395.40), in that order.                                                 *)
C3_BankScenario ==
    (variant = "bank" /\ page.rows = ScenarioTable /\ Ran("extract")
       /\ RateRow(rates, "GBP") = <<[Currency |-> "GBP", Rate |-> 79]>>) =>
        /\ ~FailedAt("extract")
        /\ Column(extracted, "Bank Name") = <<BankA, BankC>>
        /\ (Ran("transform") /\ NoEnvError) =>
              /\ ~FailedAt("transform")
              /\ Column(df, "Bank Name") = <<BankA, BankC>>
              /\ Column(df, "MC_USD_Billion") = <<Fin(100), Fin(50)>>
              /\ Column(df, "Market Cap (GBP)") = <<Fin(79000), Fin(39540)>>

(* C4: once the transformer has returned, every Record's derived currency  *)
(* field is round2(m * rate) for each requested code the rate file holds,  *)
(* m being the magnitude as extracted, and the rescaled field is           *)
(* round2(m / 1000), each rounded once from m; in the GDP variant the one  *)
(* numeric field is round2(m / 1000).                                      *)
C4_DerivedFromUnrescaled ==
    TransformDone =>
        /\ Len(df.rows) = Len(extracted.rows)
        /\ \A i \in DOMAIN df.rows :
             IF variant = "bank"
             THEN LET m == extracted.rows[i]["Market Cap (USD)"]
                  IN  /\ IsRound2(m, 1, Divisor, df.rows[i]["MC_USD_Billion"])
                      /\ \A k \in DOMAIN Currencies :
                           RateRow(rates, Currencies[k]) # <<>> =>
                             IsRound2(m, RateRow(rates, Currencies[k])[1].Rate,
                                      Pow10(Places),
                                      df.rows[i][MarketCap(Currencies[k])])
             ELSE LET m == ParseFloat(Replace(extracted.rows[i]["GDP_USD_millions"], ","))
                  IN  /\ DOMAIN df.rows[i] = {"Country", "GDP_USD_billions"}
                      /\ IsRound2(m.val, 1, Divisor, df.rows[i]["GDP_USD_billions"])

\* a bank run whose transformer returned two Records with a GBP column, one
\* of them with a magnitude that the divisor changes
C4_Witness ==
    /\ variant = "bank"
    /\ TransformDone
    /\ Len(df.rows) = 2
    /\ HasCol(df, "Market Cap (GBP)")
    /\ \E i \in DOMAIN df.rows :
         /\ extracted.rows[i]["Market Cap (USD)"] = Fin(50050)
         /\ df.rows[i]["Market Cap (GBP)"] = Fin(39540)
         /\ df.rows[i]["MC_USD_Billion"] = Fin(50)

(* C5: a missing rate is recoverable: whichever requested codes the rate   *)
(* file lacks, the transformer returns a Dataset without their columns and *)
(* with the columns of the codes present, one warning is logged per absent *)
(* code, and the run goes on through the file write, the store write and   *)
(* all queries without a fatal error.                                      *)
(* Stated for runs whose environment does not fail and whose table has a   *)
(* Record; the second query names the GBP column and breaks it.            *)
C5_MissingRateRecoverable ==
    (variant = "bank" /\ Ran("transform") /\ extracted.rows # <<>> /\ NoEnvError) =>
        LET absent == {c \in Range(Currencies) : RateRow(rates, c) = <<>>}
            warned == SelectSeq(log, LAMBDA e : e[1] = "WARNING")
        IN  /\ ~FailedAt("transform")
            /\ \A c \in Range(Currencies) :
                 /\ HasCol(df, MarketCap(c)) <=> c \notin absent
                 /\ \A i \in DOMAIN df.rows :
                      MarketCap(c) \in DOMAIN df.rows[i] <=> c \notin absent
            /\ Len(warned) = Cardinality(absent)
            /\ {warned[i][3] : i \in DOMAIN warned} = absent
            /\ pc = "done" => outcome = "ok" /\ qi = Len(Queries(variant))

(* C6: the store load is idempotent: whatever the table held before        *)
(* (nothing, no rows, rows of an earlier run), after load_to_db it holds   *)
(* exactly the rows of the Dataset in order; so a later run on the same    *)
(* source leaves the table as the earlier run left it.                     *)
C6_StoreLoadIdempotent ==
    StoreWritten =>
        /\ table.exists
        /\ table.cols = df.cols
        /\ table.rows = df.rows
        /\ loadedBefore.exists =>
             /\ Len(table.rows) = Len(loadedBefore.rows)
             /\ table = loadedBefore

\* a second run has written a table that the first run had filled
C6_Witness ==
    /\ run >= 2
    /\ StoreWritten
    /\ loadedBefore.exists
    /\ Len(loadedBefore.rows) >= 1
    /\ Len(table.rows) >= 1

(* C7: every Record the extractor emits has an identifying field that is   *)
(* non-empty after trimming and a numeric field that is a finite,          *)
(* non-negative decimal number.                                            *)
(* Neither extractor validates either field: this is the claim, which the  *)
(* code breaks.                                                            *)
C7_RecordsValidated ==
    Succeeded("extract") =>
        \A i \in DOMAIN extracted.rows :
            LET rec == extracted.rows[i]
                num == IF variant = "bank"
                       THEN Parsed(rec["Market Cap (USD)"])
                       ELSE ParseFloat(Replace(rec["GDP_USD_millions"], ","))
            IN  /\ Strip(rec[IdCol(variant)]) # <<>>
                /\ num.ok
                /\ num.val.fin
                /\ num.val.v >= 0

(* C8: whichever stage fails, it logs the failure and re-raises, and main  *)
(* catches the error, logs it once more and returns normally: no exception *)
(* leaves main.                                                            *)
(* main of ETL_GDP.py has no handler: this is the claim, which the code    *)
(* breaks.                                                                 *)
C8_MainCatchesEveryFailure ==
    pc = "done" =>
        /\ outcome # "raised"
        /\ (outcome = "caught" /\ ~FailedAt("connect")) =>
              /\ Len(log) >= 2
              /\ log[Len(log)][1] = "CRITICAL"
              /\ log[Len(log) - 1][3] = log[Len(log)][3]
              /\ log[Len(log) - 1][3] # ""

IsPrefix(a, b) == Len(a) <= Len(b) /\ SubSeq(b, 1, Len(a)) = a

\* the fixed order of the stages
StageOrder(v) ==
    <<Step("fetch"), Step("extract"), Step("transform"), Step("load_to_csv"),
      Step("load_to_db")>> \o [i \in 1..Len(Queries(v)) |-> QueryStep(i)]

\* the stages among the executed steps (connecting and closing are none)
Stages(tr) == SelectSeq(tr, LAMBDA s : s.step \notin {"connect", "close"})

(* C9: the stages a run executes are a prefix of fetch, extract,           *)
(* transform, file write, store write, query 1, ..., query n; once a step  *)
(* has failed no further step of the run is executed; a failing store      *)
(* write finds the file already overwritten and leaves it so.              *)
C9_StagesArePrefix ==
    /\ [](/\ IsPrefix(Stages(trace), StageOrder(variant))
          /\ FailedAt("load_to_db") =>
               csv.exists /\ csv.cols = df.cols /\ csv.rows = df.rows)
    /\ [][(outcome \in {"caught", "raised"} /\ run' = run) =>
             (trace' = trace /\ csv' = csv /\ table' = table)]_vars

\* the second query of a bank run failed after the first had succeeded
C9_Witness ==
    /\ variant = "bank"
    /\ outcome = "caught"
    /\ qi = 1
    /\ trace # <<>>
    /\ trace[Len(trace)] = QueryStep(2)
    /\ csv.exists
    /\ table.exists

(* C10: the store connection is opened exactly once per run, the store     *)
(* write and every query use that one connection, and no connection is     *)
(* open when the run has ended, completed or aborted.                      *)
(* load_to_db of ETL_BankData.py opens a connection of its own, and close  *)
(* is skipped on every error path: this is the claim, which the code       *)
(* breaks.                                                                 *)
C10_OneConnectionClosedAtEnd ==
    /\ opened <= 1
    /\ loadConn # 0 => queryConn \subseteq {loadConn}
    /\ pc = "done" => open = {}

====
